---- MODULE Spec2Model ----
(***************************************************************************)
(* libgqlts: a typed GraphQL client.  Query.typed compiles a Shape Tree    *)
(* into a query text (buildGraphQLQuery) and a zod validator               *)
(* (createZodSchemaFromShape); Query.execute posts the text, reads the     *)
(* response envelope and returns validated data or throws.                 *)
(*                                                                         *)
(* Two versions of the Query class live in the repository: the one with a  *)
(* Variable Set and `_args` support (src/unnamed/part_000) and the one     *)
(* without (src/index.ts).  Definitions of the second carry the suffix     *)
(* _index.  The two execute methods are textually identical and are        *)
(* modelled once.                                                          *)
(*                                                                         *)
(* Texts are kept as sequences of lexemes (one per literal piece or        *)
(* interpolated value of the template strings); Concat gives the string.   *)
(***************************************************************************)
EXTENDS Integers, Sequences, FiniteSets, TLC

(***************************************************************************)
(* Bounds                                                                  *)
(***************************************************************************)
\* levels of mappings in a Shape Tree, the root included
MaxDepth == 2
\* fields per mapping of a Shape Tree
MaxFields == 2
\* entries of a Variable Set
MaxVars == 2
\* entries of an envelope's error list
MaxErrors == 2
\* execute calls made on one Query in a behaviour
MaxCalls == 2

(***************************************************************************)
(* JavaScript values                                                       *)
(***************************************************************************)
Undefined == [kind |-> "undefined"]
Null == [kind |-> "null"]
Num(n) == [kind |-> "number", n |-> n]
Str(s) == [kind |-> "string", s |-> s]
Bool(b) == [kind |-> "boolean", b |-> b]
Arr(items) == [kind |-> "array", items |-> items]
Obj(entries) == [kind |-> "object", entries |-> entries]
\* a leaf validator: an instance of z.ZodType, identified by id
Zod(id) == [kind |-> "zod", id |-> id]
Entry(k, v) == [k |-> k, v |-> v]

\* the typeof operator
TypeOf(v) ==
  CASE v.kind \in {"number", "string", "boolean", "undefined"} -> v.kind
    [] OTHER -> "object"

\* JavaScript truthiness
Truthy(v) ==
  CASE v.kind \in {"undefined", "null"} -> FALSE
    [] v.kind = "number" -> v.n # 0
    [] v.kind = "string" -> v.s # ""
    [] v.kind = "boolean" -> v.b
    [] OTHER -> TRUE

IsArray(v) == v.kind = "array"

\* Object.entries(v) throws a TypeError on null and undefined
CanEntries(v) == v.kind \notin {"null", "undefined"}

\* Object.entries(v): own enumerable properties in insertion order; the
\* index properties of an array; nothing for a number or a boolean.
\* (Strings and validator instances are never enumerated by the inputs used.)
Entries(v) ==
  CASE v.kind = "object" -> v.entries
    [] v.kind = "array" ->
         [i \in 1..Len(v.items) |-> Entry(ToString(i - 1), v.items[i])]
    [] OTHER -> << >>

\* v[key] for a property name key
RECURSIVE Lookup(_, _, _)
Lookup(es, key, i) ==
  IF i > Len(es) THEN Undefined
  ELSE IF es[i].k = key THEN es[i].v
  ELSE Lookup(es, key, i + 1)

Get(v, key) == Lookup(Entries(v), key, 1)

\* `${v}`
JSString(v) ==
  CASE v.kind = "string" -> v.s
    [] v.kind = "number" -> ToString(v.n)
    [] v.kind = "boolean" -> IF v.b THEN "true" ELSE "false"
    [] v.kind = "null" -> "null"
    [] v.kind = "undefined" -> "undefined"
    [] OTHER -> "[object Object]"

(***************************************************************************)
(* Texts                                                                   *)
(***************************************************************************)
RECURSIVE Concat(_)
Concat(toks) == IF toks = << >> THEN "" ELSE Head(toks) \o Concat(Tail(toks))

\* parts.join(sep), on lexeme sequences
RECURSIVE Join(_, _)
Join(parts, sep) ==
  IF parts = << >> THEN << >>
  ELSE IF Len(parts) = 1 THEN Head(parts)
  ELSE Head(parts) \o <<sep>> \o Join(Tail(parts), sep)

(***************************************************************************)
(* Completion of a synchronous call: a value or a thrown exception         *)
(***************************************************************************)
Return(v) == [ok |-> TRUE, val |-> v]
Throw(e) == [ok |-> FALSE, err |-> e]
NewError(message) == [kind |-> "Error", name |-> "Error", message |-> message]
TypeError(message) == [kind |-> "Error", name |-> "TypeError", message |-> message]

\* errors.ts: throws
throws(message) == Throw(NewError(message))

(***************************************************************************)
(* part_000: the compilers                                                 *)
(***************************************************************************)
isZodSchema(value) == value.kind = "zod"

\* the argument list of an object node
argsString(value) ==
  LET args == Get(value, "_args")
      argParts == IF Truthy(args) /\ TypeOf(args) = "object"
                  THEN [i \in 1..Len(Entries(args)) |->
                          <<Entries(args)[i].k, ": ", JSString(Entries(args)[i].v)>>]
                  ELSE << >>
  IN IF Len(argParts) > 0 THEN <<"(">> \o Join(argParts, ", ") \o <<")">>
     ELSE << >>

\* buildGraphQLQuery without the skip of the `_args` key
RECURSIVE buildGraphQLQuery_selectsArgs(_)
buildGraphQLQuery_selectsArgs(shape) ==
  IF ~CanEntries(shape)
  THEN Throw(TypeError("Cannot convert undefined or null to object"))
  ELSE
    LET es == Entries(shape)
        RECURSIVE loop(_, _)
        loop(i, queryParts) ==
          IF i > Len(es) THEN Return(Join(queryParts, " "))
          ELSE LET key == es[i].k
                   value == es[i].v
               IN IF isZodSchema(value)
                  THEN loop(i + 1, Append(queryParts, <<key>>))
                  ELSE IF IsArray(value) /\ Len(value.items) > 0
                  THEN LET r == buildGraphQLQuery_selectsArgs(value.items[1])
                       IN IF ~r.ok THEN r
                          ELSE loop(i + 1, Append(queryParts,
                                 <<key, " { ">> \o r.val \o <<" }">>))
                  ELSE IF TypeOf(value) = "object"
                  THEN IF value.kind = "null"
                       THEN Throw(TypeError(
                              "Cannot read properties of null (reading '_args')"))
                       ELSE LET r == buildGraphQLQuery_selectsArgs(value)
                            IN IF ~r.ok THEN r
                               ELSE loop(i + 1, Append(queryParts,
                                      <<key>> \o argsString(value)
                                        \o <<" { ">> \o r.val \o <<" }">>))
                  ELSE loop(i + 1, queryParts)
    IN loop(1, << >>)

RECURSIVE buildGraphQLQuery(_)
buildGraphQLQuery(shape) ==
  IF ~CanEntries(shape)
  THEN Throw(TypeError("Cannot convert undefined or null to object"))
  ELSE
    LET es == Entries(shape)
        RECURSIVE loop(_, _)
        loop(i, queryParts) ==
          IF i > Len(es) THEN Return(Join(queryParts, " "))
          ELSE LET key == es[i].k
                   value == es[i].v
               IN IF key = "_args" THEN loop(i + 1, queryParts)
                  ELSE IF isZodSchema(value)
                  THEN loop(i + 1, Append(queryParts, <<key>>))
                  ELSE IF IsArray(value) /\ Len(value.items) > 0
                  THEN LET r == buildGraphQLQuery(value.items[1])
                       IN IF ~r.ok THEN r
                          ELSE loop(i + 1, Append(queryParts,
                                 <<key, " { ">> \o r.val \o <<" }">>))
                  ELSE IF TypeOf(value) = "object"
                  THEN IF value.kind = "null"
                       THEN Throw(TypeError(
                              "Cannot read properties of null (reading '_args')"))
                       ELSE LET r == buildGraphQLQuery(value)
                            IN IF ~r.ok THEN r
                               ELSE loop(i + 1, Append(queryParts,
                                      <<key>> \o argsString(value)
                                        \o <<" { ">> \o r.val \o <<" }">>))
                  ELSE loop(i + 1, queryParts)
    IN loop(1, << >>)

\* z.array(item) and z.object(shape)
ZArray(item) == [kind |-> "zarray", item |-> item]
ZObject(shape) == [kind |-> "zobject", shape |-> shape]

unexpectedType(value, key) ==
  NewError("unexpected type <" \o TypeOf(value) \o "> in query shape key ["
             \o key \o "]")

RECURSIVE createZodSchemaFromShape(_)
createZodSchemaFromShape(shape) ==
  IF ~CanEntries(shape)
  THEN Throw(TypeError("Cannot convert undefined or null to object"))
  ELSE
    LET es == Entries(shape)
        RECURSIVE loop(_, _)
        loop(i, schemaShape) ==
          IF i > Len(es) THEN Return(ZObject(schemaShape))
          ELSE LET key == es[i].k
                   value == es[i].v
               IN IF key = "_args" THEN loop(i + 1, schemaShape)
                  ELSE IF isZodSchema(value)
                  THEN loop(i + 1, Append(schemaShape, Entry(key, value)))
                  ELSE IF IsArray(value) /\ Len(value.items) > 0
                  THEN LET r == createZodSchemaFromShape(value.items[1])
                       IN IF ~r.ok THEN r
                          ELSE loop(i + 1,
                                 Append(schemaShape, Entry(key, ZArray(r.val))))
                  ELSE IF TypeOf(value) = "object"
                  THEN LET r == createZodSchemaFromShape(value)
                       IN IF ~r.ok THEN r
                          ELSE loop(i + 1, Append(schemaShape, Entry(key, r.val)))
                  ELSE Throw(unexpectedType(value, key))
    IN loop(1, << >>)

(***************************************************************************)
(* index.ts: the compilers of the class without `_args` and arrays         *)
(***************************************************************************)
RECURSIVE buildGraphQLQuery_index(_)
buildGraphQLQuery_index(shape) ==
  IF ~CanEntries(shape)
  THEN Throw(TypeError("Cannot convert undefined or null to object"))
  ELSE
    LET es == Entries(shape)
        RECURSIVE loop(_, _)
        loop(i, queryParts) ==
          IF i > Len(es) THEN Return(Join(queryParts, " "))
          ELSE LET key == es[i].k
                   value == es[i].v
               IN IF value.kind = "zod"      \* value instanceof z.ZodType
                  THEN loop(i + 1, Append(queryParts, <<key>>))
                  ELSE IF TypeOf(value) = "object"
                  THEN LET r == buildGraphQLQuery_index(value)
                       IN IF ~r.ok THEN r
                          ELSE loop(i + 1, Append(queryParts,
                                 <<key, " { ">> \o r.val \o <<" }">>))
                  ELSE loop(i + 1, queryParts)
    IN loop(1, << >>)

RECURSIVE createZodSchemaFromShape_index(_)
createZodSchemaFromShape_index(shape) ==
  IF ~CanEntries(shape)
  THEN Throw(TypeError("Cannot convert undefined or null to object"))
  ELSE
    LET es == Entries(shape)
        RECURSIVE loop(_, _)
        loop(i, schemaShape) ==
          IF i > Len(es) THEN Return(ZObject(schemaShape))
          ELSE LET key == es[i].k
                   value == es[i].v
               IN IF isZodSchema(value)
                  THEN loop(i + 1, Append(schemaShape, Entry(key, value)))
                  ELSE IF TypeOf(value) = "object"
                  THEN LET r == createZodSchemaFromShape_index(value)
                       IN IF ~r.ok THEN r
                          ELSE loop(i + 1, Append(schemaShape, Entry(key, r.val)))
                  ELSE Throw(unexpectedType(value, key))
    IN loop(1, << >>)

(***************************************************************************)
(* The Query class: construction                                           *)
(***************************************************************************)
\* new Query(url, query, schema); schema is Undefined when not given
Query(url, query, schema) == [url |-> url, query |-> query, schema |-> schema]

\* Completion of a constructor call: the Query or the exception, the steps
\* the call went through, and the query texts it wrote with console.log
Built(query, steps, log) ==
  [ok |-> TRUE, val |-> query, steps |-> steps, log |-> log]
Failed(e, steps, log) == [ok |-> FALSE, err |-> e, steps |-> steps, log |-> log]

\* Query.fromString
fromString(url, queryString, schema) ==
  Built(Query(url, queryString, schema), <<"new Query">>, << >>)

\* variableList with `||` and no throw in place of `?? throws(...)`
variableList_noThrow(names, variables) ==
  LET es == Entries(variables)
      parts == [i \in 1..Len(es) |->
                  <<"$", es[i].k, ":",
                    IF Truthy(names[es[i].v.id]) THEN names[es[i].v.id].s
                    ELSE "undefined">>]
  IN IF Len(es) > 0
     THEN Return(<<"(">> \o Join(parts, ",") \o <<")">>)
     ELSE Return(<< >>)

\* part_000 lines 46-57: the variable list `($v:Type,...)`; names is the
\* schemaNames table read by t.name()
variableList(names, variables) ==
  LET es == Entries(variables)
      RECURSIVE map(_, _)
      map(i, out) ==
        IF i > Len(es) THEN Return(out)
        ELSE LET v == es[i].k
                 n == names[es[i].v.id]           \* t.name()
             IN IF n.kind \in {"undefined", "null"}    \* ??
                THEN throws("variable " \o v \o " type not named")
                ELSE map(i + 1, Append(out, <<"$", v, ":", JSString(n)>>))
  IN IF Len(es) > 0
     THEN LET r == map(1, << >>)
          IN IF ~r.ok THEN r
             ELSE Return(<<"(">> \o Join(r.val, ",") \o <<")">>)
     ELSE Return(<< >>)

\* part_000 line 58: `query ${name}${argsString} {${body}}`
queryString(name, variablesText, body) ==
  <<"query ", name>> \o variablesText \o <<" {">> \o body \o <<"}">>

\* part_000 lines 58-65: Query.typed after the variable list
typedBody(url, name, variablesText, query) ==
  LET b == buildGraphQLQuery(query)
  IN IF ~b.ok
     THEN Failed(b.err, <<"variables", "buildGraphQLQuery">>, << >>)
     ELSE
       LET text == queryString(name, variablesText, b.val)
           s == createZodSchemaFromShape(query)
       IN IF ~s.ok
          THEN Failed(s.err, <<"variables", "buildGraphQLQuery",
                               "console.log", "createZodSchemaFromShape">>,
                      <<text>>)
          ELSE Built(Query(url, text, s.val),
                     <<"variables", "buildGraphQLQuery", "console.log",
                       "createZodSchemaFromShape", "new Query">>,
                     <<text>>)

\* typed with a check of the operation name in front
typed_nameChecked(names, url, name, variables, query) ==
  IF name = ""
  THEN Failed(NewError("operation name must not be empty"), << >>, << >>)
  ELSE LET a == variableList(names, variables)
       IN IF ~a.ok THEN Failed(a.err, <<"variables">>, << >>)
          ELSE typedBody(url, name, a.val, query)

\* part_000: Query.typed
typed(names, url, name, variables, query) ==
  LET a == variableList(names, variables)
  IN IF ~a.ok THEN Failed(a.err, <<"variables">>, << >>)
     ELSE typedBody(url, name, a.val, query)

\* index.ts line 42: `query ${name} {${body}}`
queryString_index(name, body) == <<"query ", name, " {">> \o body \o <<"}">>

\* index.ts: Query.typed
typed_index(url, name, query) ==
  LET b == buildGraphQLQuery_index(query)
  IN IF ~b.ok THEN Failed(b.err, <<"buildGraphQLQuery">>, << >>)
     ELSE
       LET text == queryString_index(name, b.val)
           s == createZodSchemaFromShape_index(query)
       IN IF ~s.ok
          THEN Failed(s.err, <<"buildGraphQLQuery", "console.log",
                               "createZodSchemaFromShape">>, <<text>>)
          ELSE Built(Query(url, text, s.val),
                     <<"buildGraphQLQuery", "console.log",
                       "createZodSchemaFromShape", "new Query">>, <<text>>)

\* Query.toString
toString(q) == Concat(q.query)

(***************************************************************************)
(* Inputs of the constructors                                              *)
(***************************************************************************)
KeyNames == <<"a", "b", "c", "d">>
Keys == {KeyNames[i] : i \in 1..MaxFields}

\* sequences of distinct field names, in every insertion order
KeyLists ==
  {ks \in UNION {[1..n -> Keys] : n \in 1..MaxFields} :
     \A i, j \in 1..Len(ks) : i # j => ks[i] # ks[j]}

Leafs == {Zod("zString"), Zod("zNumber")}

\* values that are no Shape Tree node
BadValues == {Num(1), Str("x"), Bool(TRUE), Null, Arr(<< >>)}

\* the `_args` entry of a mapping: absent, empty, or two arguments
ArgsChoices ==
  { << >>,
    <<Entry("_args", Obj(<< >>))>>,
    <<Entry("_args", Obj(<<Entry("userId", Str("$userId")),
                           Entry("type", Str("$type"))>>))>> }

\* field lists of a mapping without nested nodes: one field is a leaf
\* validator or a value that is no node, its siblings are leaf validators
FieldLists ==
  {[i \in 1..Len(ks) |-> Entry(ks[i], IF i = p THEN sp ELSE Zod("zString"))] :
     ks \in KeyLists, p \in 1..MaxFields, sp \in Leafs \cup BadValues}

LeafMappings == {Obj(a \o fs) : a \in ArgsChoices, fs \in {<< >>} \cup FieldLists}

\* the `_args` entry of a mapping that holds a nested node
OuterArgs ==
  { << >>,
    <<Entry("_args", Obj(<<Entry("userId", Str("$userId")),
                           Entry("type", Str("$type"))>>))>> }

\* the fields of a mapping that holds the node n: alone, or before or after
\* a leaf validator
Around(n, place) ==
  CASE place = 1 -> <<Entry("a", n)>>
    [] place = 2 -> <<Entry("a", n), Entry("b", Zod("zNumber"))>>
    [] place = 3 -> <<Entry("b", Zod("zNumber")), Entry("a", n)>>

\* mappings of at most d levels
RECURSIVE ShapesOfDepth(_)
ShapesOfDepth(d) ==
  IF d <= 1 THEN LeafMappings
  ELSE LET below == ShapesOfDepth(d - 1)
           nested == below
                       \cup {Arr(<<m>>) : m \in below}
                       \cup {Arr(<<Num(1)>>), Arr(<<Null>>),
                             Arr(<<Obj(<<Entry("a", Zod("zString"))>>),
                                   Obj(<<Entry("b", Zod("zNumber"))>>)>>)}
       IN below \cup {Obj(a \o Around(n, place)) :
                        a \in OuterArgs, place \in 1..3, n \in nested}

Shapes == ShapesOfDepth(MaxDepth)

SmallShapes ==
  { Obj(<<Entry("a", Zod("zString"))>>),
    Obj(<<Entry("a", Num(1))>>),
    Obj(<<Entry("user", Obj(<<Entry("_args", Obj(<<Entry("id", Str("$userId"))>>)),
                              Entry("name", Zod("zString"))>>))>>) }

OperationNames == {"", "AnimeList"}
Url == "https://graphql.anilist.co"

\* validators used as variable types, and the names named() may give them
VarLeafIds == {"zInt", "zEnum"}
TypeNames == {"Int", "MediaType"}
VarNames == {"userId", "type", "page"}

VariableSets ==
  {Obj(es) : es \in
     {vs \in UNION {[1..n -> {Entry(v, Zod(t)) : v \in VarNames, t \in VarLeafIds}]
                      : n \in 0..MaxVars} :
        \A i, j \in 1..Len(vs) : i # j => vs[i].k # vs[j].k}}

NoCall == [ctor |-> "none"]

TypedCalls ==
  {[ctor |-> "typed", url |-> Url, name |-> n, variables |-> v, query |-> s] :
     n \in OperationNames, v \in VariableSets, s \in SmallShapes}
  \cup {[ctor |-> "typed", url |-> Url, name |-> "Q", variables |-> Obj(<< >>),
         query |-> s] : s \in Shapes}

TypedIndexCalls ==
  {[ctor |-> "typed_index", url |-> Url, name |-> n, query |-> s] :
     n \in OperationNames, s \in SmallShapes}
  \cup {[ctor |-> "typed_index", url |-> Url, name |-> "Q", query |-> s] :
          s \in Shapes}

FromStringCalls ==
  {[ctor |-> "fromString", url |-> Url, queryString |-> <<"query { a }">>,
    schema |-> z] :
     z \in {Undefined, Zod("zNumber"),
            ZObject(<<Entry("a", Zod("zNumber"))>>)}}

(***************************************************************************)
(* State                                                                   *)
(***************************************************************************)
VARIABLES
  schemaNames,   \* zodExtensions: the table validator -> name
  pending,       \* the constructor call about to be made, or NoCall
  built,         \* the completion of the constructor call, or NoCall
  q,             \* the Query that execute is called on, or Undefined
  ncalls,        \* execute calls started on q
  call           \* the execute call in progress, or the last one

vars == <<schemaNames, pending, built, q, ncalls, call>>

Idle == [pc |-> "idle"]

InitBuild ==
  /\ schemaNames = [t \in VarLeafIds |-> Undefined]
  /\ pending \in TypedCalls \cup TypedIndexCalls \cup FromStringCalls
  /\ built = NoCall
  /\ q = Undefined
  /\ ncalls = 0
  /\ call = Idle

\* zodExtensions: validator.named(name), on the validator of a variable of
\* the call that is being prepared
named(t, name) ==
  /\ built = NoCall
  /\ pending.ctor = "typed"
  /\ \E i \in 1..Len(pending.variables.entries) :
       pending.variables.entries[i].v.id = t
  /\ schemaNames' = [schemaNames EXCEPT ![t] = Str(name)]
  /\ UNCHANGED <<pending, built, q, ncalls, call>>

Construct(r) ==
  /\ built' = r
  /\ q' = IF r.ok THEN r.val ELSE Undefined
  /\ UNCHANGED <<schemaNames, pending, ncalls, call>>

CallTyped ==
  /\ built = NoCall
  /\ pending.ctor = "typed"
  /\ Construct(typed(schemaNames, pending.url, pending.name,
                     pending.variables, pending.query))

CallTypedIndex ==
  /\ built = NoCall
  /\ pending.ctor = "typed_index"
  /\ Construct(typed_index(pending.url, pending.name, pending.query))

CallFromString ==
  /\ built = NoCall
  /\ pending.ctor = "fromString"
  /\ Construct(fromString(pending.url, pending.queryString, pending.schema))

NextBuild ==
  \/ \E t \in VarLeafIds, n \in TypeNames : named(t, n)
  \/ CallTyped
  \/ CallTypedIndex
  \/ CallFromString

SpecBuild == InitBuild /\ [][NextBuild]_vars

(***************************************************************************)
(* errors.ts: createGraphQLError                                           *)
(***************************************************************************)
Has(v, key) == \E i \in 1..Len(Entries(v)) : Entries(v)[i].k = key

\* new Error(message) with the graphqlErrors property attached
GraphQLError(message, errors) ==
  [kind |-> "Error", name |-> "Error", message |-> message,
   graphqlErrors |-> errors]

\* the message block of one entry of the error list
errorBlock(error) ==
  LET locations == Get(error, "locations")
      path == Get(error, "path")
      head == <<"GraphQL Error: ", JSString(Get(error, "message"))>>
      locationStr ==
        Join([i \in 1..Len(locations.items) |->
                <<"[line: ", JSString(Get(locations.items[i], "line")),
                  ", column: ", JSString(Get(locations.items[i], "column")),
                  "]">>], ", ")
      withLocation ==
        IF Truthy(locations) /\ Len(locations.items) > 0
        THEN head \o <<"\nLocation: ">> \o locationStr
        ELSE head
  IN IF Truthy(path) /\ Len(path.items) > 0
     THEN withLocation \o <<"\nPath: ">>
            \o Join([i \in 1..Len(path.items) |-> <<JSString(path.items[i])>>], ".")
     ELSE withLocation

\* createGraphQLError joining the blocks with a single line break
createGraphQLError_oneNewline(respObj) ==
  LET errors == Get(respObj, "errors")
  IN IF \/ ~Has(respObj, "errors")
        \/ ~Truthy(errors)
        \/ ~IsArray(errors)
        \/ Len(errors.items) = 0
     THEN Null
     ELSE GraphQLError(
            Concat(Join([i \in 1..Len(errors.items) |-> errorBlock(errors.items[i])],
                        "\n")),
            errors)

createGraphQLError(respObj) ==
  LET errors == Get(respObj, "errors")
  IN IF \/ ~Has(respObj, "errors")
        \/ ~Truthy(errors)
        \/ ~IsArray(errors)
        \/ Len(errors.items) = 0
     THEN Null
     ELSE GraphQLError(
            Concat(Join([i \in 1..Len(errors.items) |-> errorBlock(errors.items[i])],
                        "\n\n")),
            errors)

(***************************************************************************)
(* zod: safeParse of the validators the compilers build                    *)
(***************************************************************************)
Success(data) == [success |-> TRUE, data |-> data]
Failure(error) == [success |-> FALSE, error |-> error]

RECURSIVE safeParse(_, _, _)
safeParse(schema, data, at) ==
  CASE schema.kind = "zod" ->
         IF \/ schema.id = "zString" /\ data.kind = "string"
            \/ schema.id = "zNumber" /\ data.kind = "number"
         THEN Success(data)
         ELSE Failure("ZodError: invalid_type at [" \o at \o "]")
    [] schema.kind = "zarray" ->
         IF data.kind # "array"
         THEN Failure("ZodError: invalid_type at [" \o at \o "]")
         ELSE LET rs == [i \in 1..Len(data.items) |->
                           safeParse(schema.item, data.items[i],
                                     at \o "." \o ToString(i - 1))]
                  bad == {i \in 1..Len(rs) : ~rs[i].success}
              IN IF bad = {}
                 THEN Success(Arr([i \in 1..Len(rs) |-> rs[i].data]))
                 ELSE Failure(rs[CHOOSE i \in bad : \A j \in bad : i <= j].error)
    [] schema.kind = "zobject" ->
         IF data.kind # "object"
         THEN Failure("ZodError: invalid_type at [" \o at \o "]")
         ELSE LET rs == [i \in 1..Len(schema.shape) |->
                           safeParse(schema.shape[i].v,
                                     Get(data, schema.shape[i].k),
                                     at \o "." \o schema.shape[i].k)]
                  bad == {i \in 1..Len(rs) : ~rs[i].success}
              IN IF bad = {}
                 THEN \* unknown keys are stripped
                      Success(Obj([i \in 1..Len(rs) |->
                                     Entry(schema.shape[i].k, rs[i].data)]))
                 ELSE Failure(rs[CHOOSE i \in bad : \A j \in bad : i <= j].error)

(***************************************************************************)
(* The Query class: execute                                                *)
(***************************************************************************)
\* JSON.stringify
RECURSIVE Stringify(_)
Stringify(v) ==
  CASE v.kind = "string" -> "\"" \o v.s \o "\""
    [] v.kind = "object" ->
         "{" \o Concat(Join([i \in 1..Len(v.entries) |->
                               <<"\"" \o v.entries[i].k \o "\":"
                                   \o Stringify(v.entries[i].v)>>], ","))
             \o "}"
    [] v.kind = "array" ->
         "[" \o Concat(Join([i \in 1..Len(v.items) |-> <<Stringify(v.items[i])>>],
                            ","))
             \o "]"
    [] OTHER -> JSString(v)

\* lines 76-92: the Authorization header, Undefined when none is set
authorizationHeader(authorization) ==
  IF ~Truthy(authorization) THEN Undefined
  ELSE IF TypeOf(authorization) = "string" THEN authorization
  ELSE Str(JSString(Get(authorization, "type")) \o " "
             \o JSString(Get(authorization, "token")))

\* lines 94-106: the request handed to fetch
fetchOptions(query, variables, authorization) ==
  [url |-> query.url,
   method |-> "POST",
   authorization |-> authorizationHeader(authorization),
   body |-> Stringify(Obj(<<Entry("query", Str(toString(query))),
                            Entry("variables",
                                  IF Truthy(variables) THEN variables
                                  ELSE Obj(<< >>))>>))]

Returned(v) == [kind |-> "return", value |-> v]
\* at: the throw statement that raised
Thrown(e, at) == [kind |-> "throw", value |-> e, at |-> at]

\* inputs of execute
VariableValues == {Undefined, Obj(<<Entry("userId", Num(1))>>)}
Authorizations ==
  {Undefined, Str("Bearer t"),
   Obj(<<Entry("type", Str("Bearer")), Entry("token", Str("t"))>>)}

\* what the server may answer
Loc(l, c) == Obj(<<Entry("line", Num(l)), Entry("column", Num(c))>>)
ErrorObjects ==
  { Obj(<<Entry("message", Str("Not found")),
          Entry("path", Arr(<<Str("user"), Str("name")>>))>>),
    Obj(<<Entry("message", Str("Denied")),
          Entry("locations", Arr(<<Loc(3, 7), Loc(4, 1)>>))>>),
    Obj(<<Entry("message", Str("Empty")),
          Entry("locations", Arr(<< >>)), Entry("path", Arr(<< >>))>>),
    Obj(<<Entry("message", Str("Both")),
          Entry("locations", Arr(<<Loc(1, 2)>>)),
          Entry("path", Arr(<<Str("a"), Num(0)>>))>>),
    Obj(<<Entry("message", Str("Plain"))>>) }

ErrorLists ==
  {Arr(es) : es \in UNION {[1..n -> ErrorObjects] : n \in 0..MaxErrors}}

DataEntries ==
  { << >>, <<Entry("data", Null)>>, <<Entry("data", Num(0))>>,
    <<Entry("data", Obj(<<Entry("a", Num(1))>>))>>,
    <<Entry("data", Obj(<<Entry("a", Str("s"))>>))>>,
    <<Entry("data", Obj(<<Entry("a", Num(1)), Entry("extra", Num(2))>>))>> }

ErrorsEntries ==
  {<< >>, <<Entry("errors", Null)>>, <<Entry("errors", Str("boom"))>>}
    \cup {<<Entry("errors", l)>> : l \in ErrorLists}

Envelopes == {Obj(d \o e) : d \in DataEntries, e \in ErrorsEntries}

\* a response: status class, raw body text, and what JSON parsing of the
\* body gives (Undefined when the body is no JSON)
JsonBody(ok, v) == [ok |-> ok, text |-> Stringify(v), json |-> v]
TextBody(ok, t) == [ok |-> ok, text |-> t, json |-> Undefined]

Responses ==
  {JsonBody(TRUE, e) : e \in Envelopes}
    \cup {TextBody(TRUE, "<html>"), TextBody(FALSE, "Internal Server Error"),
          JsonBody(FALSE, Obj(<<Entry("errors",
                     Arr(<<Obj(<<Entry("message", Str("Unauthorized"))>>)>>))>>)),
          JsonBody(FALSE, Obj(<<Entry("data", Obj(<<Entry("a", Num(1))>>))>>))}

\* the Queries execute is called on
ExecConstructions ==
  {[ctor |-> "typed", url |-> Url, name |-> "Q", variables |-> Obj(<< >>),
    query |-> Obj(<<Entry("a", z)>>)] : z \in Leafs}
  \cup FromStringCalls

Construction(names, c) ==
  CASE c.ctor = "typed" -> typed(names, c.url, c.name, c.variables, c.query)
    [] c.ctor = "typed_index" -> typed_index(c.url, c.name, c.query)
    [] c.ctor = "fromString" -> fromString(c.url, c.queryString, c.schema)

InitExec ==
  /\ schemaNames = [t \in VarLeafIds |-> Undefined]
  /\ pending \in ExecConstructions
  /\ built = Construction(schemaNames, pending)
  /\ q = built.val
  /\ ncalls = 0
  /\ call = Idle

\* lines 72-108: execute up to the first await (fetch)
ExecuteCall(variables, authorization) ==
  /\ q # Undefined
  /\ call.pc \in {"idle", "done"}
  /\ ncalls < MaxCalls
  /\ ncalls' = ncalls + 1
  /\ call' = [pc |-> "fetch",
              request |-> fetchOptions(q, variables, authorization),
              sent |-> 1, parsed |-> 0, validated |-> 0]   \* calls of fetch,
              \* of resp.json and of schema.safeParseAsync made so far
  /\ UNCHANGED <<schemaNames, pending, built, q>>

\* FetchResolve that sends the request again after a non-success status
FetchResolve_retry(resp) ==
  /\ call.pc = "fetch"
  /\ IF ~resp.ok /\ call.sent < 2
     THEN call' = [pc |-> "fetch", request |-> call.request,
                   sent |-> call.sent + 1, parsed |-> call.parsed,
                   validated |-> call.validated]
     ELSE call' = [pc |-> IF resp.ok THEN "json" ELSE "text",
                   request |-> call.request, resp |-> resp,
                   sent |-> call.sent, parsed |-> call.parsed,
                   validated |-> call.validated]
  /\ UNCHANGED <<schemaNames, pending, built, q, ncalls>>

\* lines 108-114: fetch resolves with resp; on a non-success status the body
\* is read as text, otherwise as JSON
FetchResolve(resp) ==
  /\ call.pc = "fetch"
  /\ call' = [pc |-> IF resp.ok THEN "json" ELSE "text",
              request |-> call.request, resp |-> resp,
              sent |-> call.sent, parsed |-> call.parsed,
              validated |-> call.validated]
  /\ UNCHANGED <<schemaNames, pending, built, q, ncalls>>

Done(c, outcome, parsed, validated) ==
  [pc |-> "done", request |-> c.request, resp |-> c.resp, sent |-> c.sent,
   parsed |-> parsed, validated |-> validated, outcome |-> outcome]

\* line 111: resp.text() resolves
TextResolve ==
  /\ call.pc = "text"
  /\ call' = Done(call, Thrown(NewError(call.resp.text), "transport"),
                  call.parsed, call.validated)
  /\ UNCHANGED <<schemaNames, pending, built, q, ncalls>>

\* lines 114-128: resp.json() resolves (or rejects), the envelope is
\* classified, and validation is started when there is a schema
JsonResolve ==
  /\ call.pc = "json"
  /\ LET respObj == call.resp.json
     IN IF respObj = Undefined
        THEN call' = Done(call,
                       Thrown([kind |-> "Error", name |-> "SyntaxError",
                               message |-> "Unexpected token"], "json"),
                       call.parsed + 1, call.validated)
        ELSE IF Has(respObj, "data") /\ Truthy(Get(respObj, "data"))
        THEN IF q.schema # Undefined
             THEN call' = [pc |-> "validate", request |-> call.request,
                           resp |-> call.resp, sent |-> call.sent,
                           parsed |-> call.parsed + 1,
                           validated |-> call.validated + 1]
             ELSE call' = Done(call, Returned(Get(respObj, "data")),
                               call.parsed + 1, call.validated)
        ELSE call' = Done(call, Thrown(createGraphQLError(respObj), "protocol"),
                          call.parsed + 1, call.validated)
  /\ UNCHANGED <<schemaNames, pending, built, q, ncalls>>

\* lines 118-123: safeParseAsync resolves
ValidateResolve ==
  /\ call.pc = "validate"
  /\ LET zResp == safeParse(q.schema, Get(call.resp.json, "data"), "")
     IN call' = Done(call,
                     IF zResp.success THEN Returned(zResp.data)
                     ELSE Thrown(NewError(zResp.error), "validation"),
                     call.parsed, call.validated)
  /\ UNCHANGED <<schemaNames, pending, built, q, ncalls>>

NextExec ==
  \/ \E v \in VariableValues, a \in Authorizations : ExecuteCall(v, a)
  \/ \E resp \in Responses : FetchResolve(resp)
  \/ TextResolve
  \/ JsonResolve
  \/ ValidateResolve

SpecExec == InitExec /\ [][NextExec]_vars

(***************************************************************************)
(* Properties of execute                                                   *)
(***************************************************************************)
\* the envelope of the call in progress was read
EnvelopeRead == call.pc \in {"validate", "done"} /\ call.resp.ok
                  /\ call.resp.json # Undefined
RespObj == call.resp.json
Finished == call.pc = "done"

NonEmptyErrorList(respObj) ==
  /\ Has(respObj, "errors")
  /\ Get(respObj, "errors").kind = "array"
  /\ Len(Get(respObj, "errors").items) > 0

\* C1: an envelope with a non-empty `errors` list makes execute fail with the
\* GraphQL (protocol) error, without running the validator and without
\* returning data, also when the envelope carries `data`.
C1_ErrorListTakesPrecedence ==
  (EnvelopeRead /\ NonEmptyErrorList(RespObj)) =>
     /\ call.validated = 0
     /\ Finished => /\ call.outcome.kind = "throw"
                    /\ call.outcome.at = "protocol"
                    /\ call.outcome.value.kind = "Error"

\* C2: every execute call ends by returning a data value or by failing with
\* an Error object; it never fails with null or another non-Error value.
C2_ReturnsOrThrowsError ==
  Finished =>
     \/ call.outcome.kind = "return"
     \/ call.outcome.kind = "throw" /\ call.outcome.value.kind = "Error"

\* C3: a Query that holds a validator, given an envelope without an error
\* list, returns the validator's output when validation of `data` succeeds
\* and fails with a validation error when it does not; it never returns a
\* value the validator did not produce.  Queries built by typed hold a
\* validator; a Query without one returns `data` unchanged.
C3_ValidatedOrValidationError ==
  /\ (pending.ctor = "typed" /\ built.ok) => q.schema # Undefined
  /\ (Finished /\ EnvelopeRead) =>
       LET data == Get(RespObj, "data")
       IN IF q.schema = Undefined
          THEN call.outcome.kind = "return" => call.outcome.value = data
          ELSE LET zResp == safeParse(q.schema, data, "")
               IN /\ call.outcome.kind = "return" =>
                       zResp.success /\ call.outcome.value = zResp.data
                  /\ ~Has(RespObj, "errors") =>
                       IF zResp.success
                       THEN call.outcome = Returned(zResp.data)
                       ELSE /\ call.outcome.kind = "throw"
                            /\ call.outcome.at = "validation"
                            /\ call.outcome.value.kind = "Error"

\* The message the error list is to be rendered as: one block per error, in
\* list order, separated by a blank line.
RECURSIVE ExpectedLocations(_)
ExpectedLocations(locs) ==
  IF locs = << >> THEN ""
  ELSE "[line: " \o ToString(Get(Head(locs), "line").n) \o ", column: "
         \o ToString(Get(Head(locs), "column").n) \o "]"
         \o (IF Tail(locs) = << >> THEN "" ELSE ", " \o ExpectedLocations(Tail(locs)))

RECURSIVE ExpectedPath(_)
ExpectedPath(path) ==
  IF path = << >> THEN ""
  ELSE JSString(Head(path))
         \o (IF Tail(path) = << >> THEN "" ELSE "." \o ExpectedPath(Tail(path)))

ExpectedBlock(e) ==
  "GraphQL Error: " \o Get(e, "message").s
    \o (IF Has(e, "locations") /\ Get(e, "locations").items # << >>
        THEN "\nLocation: " \o ExpectedLocations(Get(e, "locations").items)
        ELSE "")
    \o (IF Has(e, "path") /\ Get(e, "path").items # << >>
        THEN "\nPath: " \o ExpectedPath(Get(e, "path").items)
        ELSE "")

RECURSIVE ExpectedMessage(_)
ExpectedMessage(errors) ==
  IF Len(errors) = 1 THEN ExpectedBlock(Head(errors))
  ELSE ExpectedBlock(Head(errors)) \o "\n\n" \o ExpectedMessage(Tail(errors))

NotFoundEnvelope ==
  Obj(<<Entry("errors", Arr(<<Obj(<<Entry("message", Str("Not found")),
                                    Entry("path", Arr(<<Str("user"), Str("name")>>))
                                  >>)>>))>>)

FailedOnErrorList ==
  /\ Finished /\ EnvelopeRead
  /\ NonEmptyErrorList(RespObj)
  /\ call.outcome.kind = "throw"
  /\ call.outcome.at = "protocol"

\* C7: when execute fails because the envelope carries a non-empty error
\* list, it fails with one Error whose message is the blocks of the errors in
\* list order separated by a blank line (message, Location line only for
\* non-empty locations, Path line only for a non-empty path), and the
\* original error list is attached to it unchanged.
C7_ErrorListMessage ==
  FailedOnErrorList =>
     /\ call.outcome.value.kind = "Error"
     /\ call.outcome.value.message = ExpectedMessage(Get(RespObj, "errors").items)
     /\ call.outcome.value.graphqlErrors = Get(RespObj, "errors")
     /\ RespObj = NotFoundEnvelope =>
          call.outcome.value.message = "GraphQL Error: Not found\nPath: user.name"

C7_Witness ==
  /\ FailedOnErrorList
  /\ Len(Get(RespObj, "errors").items) = 2
  /\ Has(Get(RespObj, "errors").items[1], "locations")
  /\ Get(Get(RespObj, "errors").items[1], "locations").items # << >>
  /\ Has(Get(RespObj, "errors").items[2], "path")
  /\ Get(Get(RespObj, "errors").items[2], "path").items # << >>

\* C8: an execute call sends exactly one request; on a non-success status it
\* fails with an Error carrying the raw body text, sends no second request,
\* does not parse the body, does not run the validator, returns nothing.
C8_OneExchangeNoRetry ==
  /\ call.pc # "idle" => call.sent = 1
  /\ (call.pc \in {"text", "done"} /\ ~call.resp.ok) =>
       /\ call.parsed = 0
       /\ call.validated = 0
       /\ Finished => call.outcome = Thrown(NewError(call.resp.text), "transport")

C8_Witness ==
  /\ Finished
  /\ ~call.resp.ok
  /\ call.resp.json # Undefined
  /\ Has(call.resp.json, "data")
  /\ q.schema # Undefined

(***************************************************************************)
(* Properties of construction                                              *)
(***************************************************************************)
Constructed == built # NoCall
TypedCall == Constructed /\ pending.ctor = "typed"
NoVariables == Len(Entries(pending.variables)) = 0
Unnamed == {i \in 1..Len(Entries(pending.variables)) :
              schemaNames[Entries(pending.variables)[i].v.id] = Undefined}

\* C4: typed with a variable whose validator has no type name fails with a
\* construction error before the query body is compiled, before the
\* validator is built and before a Query exists; when every variable is
\* named no such error is raised and the registered names are used.
C4_UnnamedVariableFailsFirst ==
  TypedCall =>
    LET vs == Entries(pending.variables)
    IN IF Unnamed # {}
       THEN LET first == CHOOSE i \in Unnamed : \A j \in Unnamed : i <= j
            IN /\ ~built.ok
               /\ built.err.message = "variable " \o vs[first].k \o " type not named"
               /\ built.steps = <<"variables">>
               /\ built.log = << >>
               /\ q = Undefined
       ELSE /\ ~built.ok => \A i \in 1..Len(vs) :
                 built.err.message # "variable " \o vs[i].k \o " type not named"
            /\ built.ok => \A i \in 1..Len(vs) :
                 /\ built.val.query[5 * i] = vs[i].k
                 /\ built.val.query[5 * i + 2] = schemaNames[vs[i].v.id].s

C4_Witness ==
  /\ TypedCall
  /\ Len(Entries(pending.variables)) = 2
  /\ Unnamed = {2}
  /\ ~built.ok
  /\ pending.query = Obj(<<Entry("a", Zod("zString"))>>)

\* a Shape Tree node: a leaf validator, an array template of exactly one
\* node, or a mapping of field names to nodes (`_args` aside)
RECURSIVE NodeOK(_)
NodeOK(v) ==
  CASE v.kind = "zod" -> TRUE
    [] v.kind = "array" -> Len(v.items) = 1 /\ NodeOK(v.items[1])
    [] v.kind = "object" ->
         \A i \in 1..Len(v.entries) :
            v.entries[i].k = "_args" \/ NodeOK(v.entries[i].v)
    [] OTHER -> FALSE

\* the entries, at any depth, whose value is no Shape Tree node
RECURSIVE BadEntries(_)
BadEntries(v) ==
  CASE v.kind = "object" ->
         UNION {LET e == v.entries[i]
                IN IF e.k = "_args" THEN {}
                   ELSE IF e.v.kind = "zod" THEN {}
                   ELSE IF e.v.kind = "object" THEN BadEntries(e.v)
                   ELSE IF e.v.kind = "array" /\ Len(e.v.items) = 1
                   THEN IF e.v.items[1].kind \in {"object", "array"}
                        THEN BadEntries(e.v.items[1])
                        ELSE IF e.v.items[1].kind = "zod" THEN {}
                        ELSE {Entry("0", e.v.items[1])}
                   ELSE {e} : i \in 1..Len(v.entries)}
    [] OTHER -> {}

\* C5: a Shape Tree holding, at any depth, a value that is no leaf, no
\* one-element array template and no mapping makes typed fail with an error
\* that reports the offending key and the observed kind; no Query is made.
C5_MalformedShapeFails ==
  (TypedCall /\ Unnamed = {} /\ ~NodeOK(pending.query)) =>
     /\ ~built.ok
     /\ q = Undefined
     /\ \E e \in BadEntries(pending.query) :
          built.err.message = "unexpected type <" \o TypeOf(e.v)
                                \o "> in query shape key [" \o e.k \o "]"

\* The selection text of a well-formed mapping
ExpectedArgs(node) ==
  IF ~Has(node, "_args") \/ Get(node, "_args").entries = << >> THEN ""
  ELSE LET as == Get(node, "_args").entries
           RECURSIVE list(_)
           list(i) == as[i].k \o ": " \o as[i].v.s
                        \o (IF i = Len(as) THEN "" ELSE ", " \o list(i + 1))
       IN "(" \o list(1) \o ")"

RECURSIVE ExpectedSelection(_)
ExpectedSelection(node) ==
  LET fields == SelectSeq(node.entries, LAMBDA e : e.k # "_args")
      RECURSIVE sel(_)
      sel(i) ==
        LET e == fields[i]
            one == CASE e.v.kind = "zod" -> e.k
                     [] e.v.kind = "array" ->
                          e.k \o " { " \o ExpectedSelection(e.v.items[1]) \o " }"
                     [] e.v.kind = "object" ->
                          e.k \o ExpectedArgs(e.v) \o " { "
                              \o ExpectedSelection(e.v) \o " }"
        IN one \o (IF i = Len(fields) THEN "" ELSE " " \o sel(i + 1))
  IN IF fields = << >> THEN "" ELSE sel(1)

\* The field paths a query text selects
RECURSIVE Scan(_, _, _, _, _, _, _)
Scan(toks, i, stack, last, started, inArgs, acc) ==
  IF i > Len(toks) THEN acc
  ELSE LET t == toks[i]
       IN IF ~started
          THEN Scan(toks, i + 1, stack, last, t = " {", inArgs, acc)
          ELSE IF inArgs
          THEN Scan(toks, i + 1, stack, last, started, t # ")", acc)
          ELSE IF t = "("
          THEN Scan(toks, i + 1, stack, last, started, TRUE, acc)
          ELSE IF t = " { "
          THEN Scan(toks, i + 1, Append(stack, last), last, started, inArgs, acc)
          ELSE IF t = " }"
          THEN Scan(toks, i + 1, SubSeq(stack, 1, Len(stack) - 1), last,
                    started, inArgs, acc)
          ELSE IF t \in {" ", "}"}
          THEN Scan(toks, i + 1, stack, last, started, inArgs, acc)
          ELSE Scan(toks, i + 1, stack, t, started, inArgs,
                    acc \cup {Append(stack, t)})

SelectedPaths(text) == Scan(text, 1, << >>, "", FALSE, FALSE, {})

Field(path, kind, leaf) == [path |-> path, kind |-> kind, leaf |-> leaf]

\* The entries of a validator, by field path
RECURSIVE ValidatorFields(_, _)
ValidatorFields(schema, prefix) ==
  CASE schema.kind = "zobject" ->
         UNION {LET e == schema.shape[i]
                    path == Append(prefix, e.k)
                IN CASE e.v.kind = "zod" -> {Field(path, "leaf", e.v)}
                     [] e.v.kind = "zarray" ->
                          {Field(path, "array", Undefined)}
                            \cup ValidatorFields(e.v.item, path)
                     [] e.v.kind = "zobject" ->
                          {Field(path, "object", Undefined)}
                            \cup ValidatorFields(e.v, path)
                : i \in 1..Len(schema.shape)}
    [] OTHER -> {}

\* The fields of a Shape Tree with `_args` removed, by field path
RECURSIVE TreeFields(_, _)
TreeFields(node, prefix) ==
  CASE node.kind = "object" ->
         UNION {LET e == node.entries[i]
                    path == Append(prefix, e.k)
                IN CASE e.k = "_args" -> {}
                     [] e.v.kind = "zod" -> {Field(path, "leaf", e.v)}
                     [] e.v.kind = "array" /\ Len(e.v.items) = 1 ->
                          {Field(path, "array", Undefined)}
                            \cup TreeFields(e.v.items[1], path)
                     [] e.v.kind = "object" ->
                          {Field(path, "object", Undefined)}
                            \cup TreeFields(e.v, path)
                     [] OTHER -> {}
                : i \in 1..Len(node.entries)}
    [] OTHER -> {}

PathsOf(fields) == {f.path : f \in fields}
Mentions(paths, key) == \E path \in paths : \E i \in 1..Len(path) : path[i] = key

ArgsExample ==
  Obj(<<Entry("a", Obj(<<Entry("_args", Obj(<<Entry("userId", Str("$userId")),
                                              Entry("type", Str("$type"))>>)),
                         Entry("a", Zod("zString"))>>))>>)

\* C6: an object node compiles to `name(arg1: val1, ...) { children }`, the
\* arguments in insertion order and verbatim, no parentheses without
\* arguments; `_args` is never a selected field nor a key of the validator,
\* at any depth, in both typed constructors.
C6_ArgsEmittedAndStripped ==
  /\ (Constructed /\ pending.ctor \in {"typed", "typed_index"}
        /\ built.log # << >>) =>
       ~Mentions(SelectedPaths(built.log[1]), "_args")
  /\ (Constructed /\ pending.ctor \in {"typed", "typed_index"} /\ built.ok) =>
       ~Mentions(PathsOf(ValidatorFields(built.val.schema, << >>)), "_args")
  /\ (Constructed /\ pending.ctor \in {"typed", "typed_index"}
        /\ pending.name = "Q" /\ NodeOK(pending.query)) =>
       /\ built.ok
       /\ toString(built.val)
            = "query Q {" \o ExpectedSelection(pending.query) \o "}"
       /\ pending.query = ArgsExample =>
            toString(built.val) = "query Q {a(userId: $userId, type: $type) { a }}"

\* C9 as stated: typed with an empty operation name fails with a
\* construction error and produces no Query and no query text.
C9_EmptyNameFails ==
  (Constructed /\ pending.ctor \in {"typed", "typed_index"}
     /\ pending.name = "") =>
       ~built.ok /\ q = Undefined /\ built.log = << >>

\* C9 as amended: typed does not check the operation name.  The name is put
\* verbatim after `query ` in the text, and a call with an empty name
\* succeeds whenever its variables are named and its Shape Tree is accepted,
\* e.g. typed(url, "", {}, {a: z.string()}) gives the text `query  {a}`.
C9_NameIsNotChecked ==
  (Constructed /\ pending.ctor \in {"typed", "typed_index"}) =>
     /\ built.ok => /\ built.val.query[1] = "query "
                    /\ built.val.query[2] = pending.name
     /\ (pending.query = Obj(<<Entry("a", Zod("zString"))>>)
           /\ (pending.ctor = "typed" => Unnamed = {})) =>
          /\ built.ok
          /\ q = built.val
          /\ (pending.ctor = "typed" /\ ~NoVariables) \/
               toString(q) = "query " \o pending.name \o " {a}"

C9_Witness ==
  /\ TypedCall
  /\ pending.name = ""
  /\ built.ok
  /\ toString(q) = "query  {a}"

\* C10: for a Shape Tree that typed accepts, the query text selects exactly
\* the field paths the validator has entries for, and every leaf, array
\* template and object field of the tree (`_args` removed) has the leaf
\* itself, an each-element validator, a record validator at its path.
C10_TextAndValidatorAgree ==
  (TypedCall /\ built.ok) =>
     LET validated == ValidatorFields(built.val.schema, << >>)
     IN /\ SelectedPaths(built.val.query) = PathsOf(validated)
        /\ TreeFields(pending.query, << >>) \subseteq validated
        /\ NodeOK(pending.query) =>
             TreeFields(pending.query, << >>) = validated

C10_Witness ==
  /\ TypedCall /\ built.ok
  /\ LET fs == TreeFields(pending.query, << >>)
     IN /\ \E f \in fs : f.kind = "array" /\ Len(f.path) = 1
        /\ \E f \in fs : f.kind = "leaf" /\ Len(f.path) = 2
        /\ \E f \in fs : f.kind = "leaf" /\ Len(f.path) = 1
  /\ \E i \in 1..Len(pending.query.entries) :
       /\ pending.query.entries[i].v.kind = "array"
       /\ Has(pending.query.entries[i].v.items[1], "_args")
====
